---- MODULE Spec2Model ----
\* Model of CROMManager (src/src/rommanager.cpp): the five ROM slots, the
\* directory scan with its legacy fallback, the set queries and the destructor.
EXTENDS Bags, FiniteSets, Integers, Sequences, TLC

\* ------------------------------------------------------------------ bounds
\* Largest number of entries the directory enumeration hands out.
MaxDirLen == 4

\* --------------------------------------------------------------- constants
ROMPath == "roms"
MT32ControlROMName == "MT32_CONTROL.ROM"
MT32PCMROMName == "MT32_PCM.ROM"

\* FatFs attribute bits tested by the scan loop.
AM_HID == 2
AM_SYS == 4
AM_DIR == 16
AM_ARC == 32

RECURSIVE BitAnd(_, _)
BitAnd(a, b) ==
    IF a = 0 \/ b = 0 THEN 0
    ELSE (IF a % 2 = 1 /\ b % 2 = 1 THEN 1 ELSE 0) + 2 * BitAnd(a \div 2, b \div 2)

\* The mask without the system bit.
SkipMask_NoSys == AM_DIR + AM_HID

\* AM_DIR | AM_HID | AM_SYS: the three bits are distinct, so | is +.
SkipMask == AM_DIR + AM_HID + AM_SYS

\* ------------------------------------------------------- ROM descriptors
\* shortName[i] of the C string: position i is element i + 1 of the tuple.
CharAt(shortName, i) == shortName[i + 1]

NoInfo == [type |-> "none", shortName |-> <<>>]

\* What the validator reports for a file's bytes.  "unreadable" cannot be
\* opened; "junk" opens but is no known ROM (getROMInfo() is null).
ROMInfoOf(content) ==
    CASE content = "ctrl_mt32_1_07" ->
           [type |-> "Control",
            shortName |-> <<"c","t","r","l","_","m","t","3","2","_","1","_","0","7">>]
      [] content = "ctrl_mt32_bluer" ->
           [type |-> "Control",
            shortName |-> <<"c","t","r","l","_","m","t","3","2","_","b","l","u","e","r">>]
      [] content = "ctrl_mt32_2_04" ->
           [type |-> "Control",
            shortName |-> <<"c","t","r","l","_","m","t","3","2","_","2","_","0","4">>]
      [] content = "ctrl_cm32l_1_02" ->
           [type |-> "Control",
            shortName |-> <<"c","t","r","l","_","c","m","3","2","l","_","1","_","0","2">>]
      [] content = "pcm_mt32" ->
           [type |-> "PCM", shortName |-> <<"p","c","m","_","m","t","3","2">>]
      [] content = "pcm_cm32l" ->
           [type |-> "PCM", shortName |-> <<"p","c","m","_","c","m","3","2","l">>]
      [] content = "reverb" ->
           [type |-> "Reverb", shortName |-> <<"r","e","v","e","r","b">>]
      [] OTHER -> NoInfo

ROMNames == {"ctrl_mt32_1_07", "ctrl_mt32_bluer", "ctrl_mt32_2_04", "ctrl_cm32l_1_02",
             "pcm_mt32", "pcm_cm32l", "reverb"}
Contents == ROMNames \cup {"unreadable", "junk"}

\* FileStream::open
CanOpen(content) == content # "unreadable"

\* A ROMImage object: id is its identity (the path it was made from).
nullptr == [id |-> <<>>, info |-> NoInfo]
\* What a caller's pointer variable holds before GetROMSet is asked to set it.
Indeterminate == [id |-> <<"indeterminate">>, info |-> NoInfo]
makeROMImage(pPath, content) == [id |-> pPath, info |-> ROMInfoOf(content)]

\* ------------------------------------------------------------------ slots
SlotNames == {"mMT32OldControl", "mMT32NewControl", "mCM32LControl", "mMT32PCM", "mCM32LPCM"}
\* order of the destructor's array
SlotOrder == <<"mMT32OldControl", "mMT32NewControl", "mCM32LControl", "mMT32PCM", "mCM32LPCM">>
TROMSet == {"Any", "MT32Old", "MT32New", "CM32L"}

Filled(s, slot) == s[slot] # nullptr

VARIABLES
    pc,           \* "constructed", "walk", "scanned", "destroyed"
    slots,        \* the five image pointers
    result,       \* FRESULT of the last f_findfirst / f_findnext
    fileInfo,     \* FILINFO of the current entry; fname <<>> ends the listing
    seen,         \* bag of the directory entries enumerated so far
    calls,        \* bag of paths CheckROM was called with (one stream each)
    roms,         \* ids of the images makeROMImage produced
    romFrees,     \* bag of ids passed to freeROMImage
    fileDeletes,  \* bag of stream ids deleted
    walkSlots,    \* slots as they were when the directory walk ended
    fallback,     \* the fallback CheckROM calls, in order
    scanRet,      \* value ScanROMs returned
    getRet,       \* value the last GetROMSet returned
    pOutControl,  \* the output arguments after the last GetROMSet; each call
    pOutPCM,      \* is handed fresh variables holding Indeterminate
    firstValid    \* history: per slot, the first path CheckROM was called with
                  \* whose file validated as a ROM of that slot's class

vars == <<pc, slots, result, fileInfo, seen, calls, roms, romFrees, fileDeletes,
          walkSlots, fallback, scanRet, getRet, pOutControl, pOutPCM, firstValid>>

EmptySlots == [s \in SlotNames |-> nullptr]

\* ------------------------------------------------------------ HaveROMSet
\* HaveROMSet whose Any case looks at the MT-32 PCM slot only.
HaveROMSet_AnyNeedsMT32PCM(s, ROMSet) ==
    CASE ROMSet = "Any" ->
           (Filled(s, "mMT32OldControl") \/ Filled(s, "mMT32NewControl")
              \/ Filled(s, "mCM32LControl"))
           /\ Filled(s, "mMT32PCM")
      [] ROMSet = "MT32Old" -> Filled(s, "mMT32OldControl") /\ Filled(s, "mMT32PCM")
      [] ROMSet = "MT32New" -> Filled(s, "mMT32NewControl") /\ Filled(s, "mMT32PCM")
      [] ROMSet = "CM32L" -> Filled(s, "mCM32LControl") /\ Filled(s, "mCM32LPCM")
      [] OTHER -> FALSE

HaveROMSet(s, ROMSet) ==
    CASE ROMSet = "Any" ->
           (Filled(s, "mMT32OldControl") \/ Filled(s, "mMT32NewControl")
              \/ Filled(s, "mCM32LControl"))
           /\ (Filled(s, "mMT32PCM") \/ Filled(s, "mCM32LPCM"))
      [] ROMSet = "MT32Old" -> Filled(s, "mMT32OldControl") /\ Filled(s, "mMT32PCM")
      [] ROMSet = "MT32New" -> Filled(s, "mMT32NewControl") /\ Filled(s, "mMT32PCM")
      [] ROMSet = "CM32L" -> Filled(s, "mCM32LControl") /\ Filled(s, "mCM32LPCM")
      [] OTHER -> FALSE

\* -------------------------------------------------------------- StoreROM
\* RomPtr that takes every MT-32 control ROM for an old one.
RomPtr_NewAsOld(romInfo) ==
    IF romInfo.type = "Control"
    THEN IF CharAt(romInfo.shortName, 10) \in {"1", "b", "2"}
         THEN "mMT32OldControl"
         ELSE "mCM32LControl"
    ELSE IF romInfo.type = "PCM"
         THEN IF CharAt(romInfo.shortName, 4) = "m" THEN "mMT32PCM" ELSE "mCM32LPCM"
         ELSE "none"

\* RomPtr without the test for 'b' at index 10.
RomPtr_NoBlueRidge(romInfo) ==
    IF romInfo.type = "Control"
    THEN IF CharAt(romInfo.shortName, 10) = "1"
         THEN "mMT32OldControl"
         ELSE IF CharAt(romInfo.shortName, 10) = "2"
              THEN "mMT32NewControl"
              ELSE "mCM32LControl"
    ELSE IF romInfo.type = "PCM"
         THEN IF CharAt(romInfo.shortName, 4) = "m" THEN "mMT32PCM" ELSE "mCM32LPCM"
         ELSE "none"

\* The slot the classification selects, "none" when romPtr stays null.
RomPtr(romInfo) ==
    IF romInfo.type = "Control"
    THEN IF CharAt(romInfo.shortName, 10) = "1" \/ CharAt(romInfo.shortName, 10) = "b"
         THEN "mMT32OldControl"
         ELSE IF CharAt(romInfo.shortName, 10) = "2"
              THEN "mMT32NewControl"
              ELSE "mCM32LControl"
    ELSE IF romInfo.type = "PCM"
         THEN IF CharAt(romInfo.shortName, 4) = "m" THEN "mMT32PCM" ELSE "mCM32LPCM"
         ELSE "none"

\* StoreROM without the test for an occupied slot.
StoreROM_Overwrite(s, ROMImage) ==
    LET romInfo == ROMImage.info
        romPtr == RomPtr(romInfo)
    IN IF romInfo = NoInfo \/ romPtr = "none"
       THEN [ret |-> FALSE, slots |-> s]
       ELSE [ret |-> TRUE, slots |-> [s EXCEPT ![romPtr] = ROMImage]]

StoreROM(s, ROMImage) ==
    LET romInfo == ROMImage.info
        romPtr == RomPtr(romInfo)
    IN IF romInfo = NoInfo
       THEN [ret |-> FALSE, slots |-> s]
       ELSE IF romPtr = "none" \/ s[romPtr] # nullptr
            THEN [ret |-> FALSE, slots |-> s]
            ELSE [ret |-> TRUE, slots |-> [s EXCEPT ![romPtr] = ROMImage]]

\* -------------------------------------------------------------- CheckROM
\* CheckROM that deletes the stream on success as well.
CheckROM_DeleteAlways(S, pPath, content) ==
    LET file == pPath
        called == [S EXCEPT !.calls = @ (+) SetToBag({pPath})]
    IN IF ~CanOpen(content)
       THEN [called EXCEPT !.ret = FALSE,
                           !.fileDeletes = @ (+) SetToBag({file})]
       ELSE LET rom == makeROMImage(pPath, content)
                st == StoreROM(S.slots, rom)
                made == [called EXCEPT !.roms = @ \cup {rom.id}]
            IN IF ~st.ret
               THEN [made EXCEPT !.ret = FALSE,
                                 !.slots = st.slots,
                                 !.romFrees = @ (+) SetToBag({rom.id}),
                                 !.fileDeletes = @ (+) SetToBag({file})]
               ELSE [made EXCEPT !.ret = TRUE, !.slots = st.slots,
                                 !.fileDeletes = @ (+) SetToBag({file})]

\* S carries the fields CheckROM touches; content is what the file at pPath holds.
CheckROM(S, pPath, content) ==
    LET file == pPath
        called == [S EXCEPT !.calls = @ (+) SetToBag({pPath})]
    IN IF ~CanOpen(content)
       THEN [called EXCEPT !.ret = FALSE,
                           !.fileDeletes = @ (+) SetToBag({file})]
       ELSE LET rom == makeROMImage(pPath, content)
                st == StoreROM(S.slots, rom)
                made == [called EXCEPT !.roms = @ \cup {rom.id}]
            IN IF ~st.ret
               THEN [made EXCEPT !.ret = FALSE,
                                 !.slots = st.slots,
                                 !.romFrees = @ (+) SetToBag({rom.id}),
                                 !.fileDeletes = @ (+) SetToBag({file})]
               ELSE [made EXCEPT !.ret = TRUE, !.slots = st.slots]

Store == [ret |-> FALSE, slots |-> slots, calls |-> calls, roms |-> roms,
          romFrees |-> romFrees, fileDeletes |-> fileDeletes]

\* ------------------------------------------------------------- directory
EndOfDir == [fname |-> <<>>, fattrib |-> 0]

\* Kinds of entry the enumeration can produce: plain files of every content,
\* and a hidden file, a system file and a subdirectory.
EntryKinds ==
    [fattrib : {AM_ARC}, content : Contents]
      \cup [fattrib : {AM_HID, AM_SYS}, content : {"pcm_mt32"}]
      \cup [fattrib : {AM_DIR}, content : {"unreadable"}]

\* The n-th entry of a kind gets its own name.
EntryOf(kind, n) == [fname |-> <<kind.content, kind.fattrib, n>>, fattrib |-> kind.fattrib]
KindOf(entry) == [fattrib |-> entry.fattrib, content |-> entry.fname[1]]

\* path = ROMPath "/" fname
DirPath(fname) == <<ROMPath, fname>>
RootPath(name) == <<name>>

\* f_findfirst / f_findnext: an error, the end of the listing, or one more entry.
Enumerate(failure) ==
    \/ /\ result' = failure
       /\ fileInfo' = EndOfDir
       /\ seen' = seen
    \/ /\ result' = "FR_OK"
       /\ fileInfo' = EndOfDir
       /\ seen' = seen
    \/ /\ BagCardinality(seen) < MaxDirLen
       /\ \E kind \in EntryKinds :
            /\ result' = "FR_OK"
            /\ fileInfo' = EntryOf(kind, CopiesIn(kind, seen) + 1)
            /\ seen' = seen (+) SetToBag({kind})

\* The slot each ROM is expected in; "none" for what no slot takes.
ClassOf(content) ==
    CASE content \in {"ctrl_mt32_1_07", "ctrl_mt32_bluer"} -> "mMT32OldControl"
      [] content = "ctrl_mt32_2_04" -> "mMT32NewControl"
      [] content = "ctrl_cm32l_1_02" -> "mCM32LControl"
      [] content = "pcm_mt32" -> "mMT32PCM"
      [] content = "pcm_cm32l" -> "mCM32LPCM"
      [] OTHER -> "none"

\* The file opens and the validator knows it.
Recognized(content) == CanOpen(content) /\ ROMInfoOf(content) # NoInfo

\* firstValid after one more CheckROM call.
NoteAttempt(first, path, content) ==
    IF Recognized(content) /\ ClassOf(content) # "none" /\ first[ClassOf(content)] = <<>>
    THEN [first EXCEPT ![ClassOf(content)] = path]
    ELSE first

RECURSIVE NoteAttempts(_, _)
NoteAttempts(first, log) ==
    IF log = <<>> THEN first
    ELSE NoteAttempts(NoteAttempt(first, Head(log).path, Head(log).content), Tail(log))

Init ==
    /\ pc = "constructed"
    /\ slots = EmptySlots
    /\ result = "FR_OK"
    /\ fileInfo = EndOfDir
    /\ seen = EmptyBag
    /\ calls = EmptyBag
    /\ roms = {}
    /\ romFrees = EmptyBag
    /\ fileDeletes = EmptyBag
    /\ walkSlots = EmptySlots
    /\ fallback = <<>>
    /\ scanRet = FALSE
    /\ getRet = FALSE
    /\ pOutControl = Indeterminate
    /\ pOutPCM = Indeterminate
    /\ firstValid = [slot \in SlotNames |-> <<>>]

\* -------------------------------------------------------------- ScanROMs
\* f_findfirst(&dir, &fileInfo, ROMPath, "*")
ScanFindFirst ==
    /\ pc = "constructed"
    /\ pc' = "walk"
    /\ Enumerate("FR_NO_PATH")
    /\ UNCHANGED <<slots, calls, roms, romFrees, fileDeletes, walkSlots, fallback,
                   scanRet, getRet, pOutControl, pOutPCM, firstValid>>

LoopCondition == result = "FR_OK" /\ fileInfo.fname # <<>>

\* One iteration of the while loop: the attribute test, CheckROM, f_findnext.
ScanLoopBody ==
    /\ pc = "walk"
    /\ LoopCondition
    /\ LET after == IF BitAnd(fileInfo.fattrib, SkipMask) = 0
                    THEN CheckROM(Store, DirPath(fileInfo.fname), KindOf(fileInfo).content)
                    ELSE Store
       IN /\ slots' = after.slots
          /\ calls' = after.calls
          /\ roms' = after.roms
          /\ romFrees' = after.romFrees
          /\ fileDeletes' = after.fileDeletes
          /\ firstValid' = IF after.calls # calls
                           THEN NoteAttempt(firstValid, DirPath(fileInfo.fname),
                                            KindOf(fileInfo).content)
                           ELSE firstValid
    /\ Enumerate("FR_DISK_ERR")
    /\ UNCHANGED <<pc, walkSlots, fallback, scanRet, getRet, pOutControl, pOutPCM>>

\* The fallback with || in place of &&.
Fallback_Or(S, controlContent, pcmContent) ==
    LET first == CheckROM(S, RootPath(MT32ControlROMName), controlContent)
        firstCall == [path |-> RootPath(MT32ControlROMName), content |-> controlContent,
                      ret |-> first.ret]
    IN IF first.ret
       THEN [ret |-> TRUE, store |-> first, log |-> <<firstCall>>]
       ELSE LET second == CheckROM(first, RootPath(MT32PCMROMName), pcmContent)
                secondCall == [path |-> RootPath(MT32PCMROMName), content |-> pcmContent,
                               ret |-> second.ret]
            IN [ret |-> second.ret, store |-> second, log |-> <<firstCall, secondCall>>]

\* The fallback with & in place of &&: both files are always tried.
Fallback_Both(S, controlContent, pcmContent) ==
    LET first == CheckROM(S, RootPath(MT32ControlROMName), controlContent)
        firstCall == [path |-> RootPath(MT32ControlROMName), content |-> controlContent,
                      ret |-> first.ret]
        second == CheckROM(first, RootPath(MT32PCMROMName), pcmContent)
        secondCall == [path |-> RootPath(MT32PCMROMName), content |-> pcmContent,
                       ret |-> second.ret]
    IN [ret |-> first.ret /\ second.ret, store |-> second,
        log |-> <<firstCall, secondCall>>]

\* CheckROM(MT32ControlROMName) && CheckROM(MT32PCMROMName)
Fallback(S, controlContent, pcmContent) ==
    LET first == CheckROM(S, RootPath(MT32ControlROMName), controlContent)
        firstCall == [path |-> RootPath(MT32ControlROMName), content |-> controlContent,
                      ret |-> first.ret]
    IN IF ~first.ret
       THEN [ret |-> FALSE, store |-> first, log |-> <<firstCall>>]
       ELSE LET second == CheckROM(first, RootPath(MT32PCMROMName), pcmContent)
                secondCall == [path |-> RootPath(MT32PCMROMName), content |-> pcmContent,
                               ret |-> second.ret]
            IN [ret |-> second.ret, store |-> second, log |-> <<firstCall, secondCall>>]

\* ScanTail that runs the fallback whatever the walk found.
ScanTail_AlwaysFallback(S, controlContent, pcmContent) ==
    LET fb == Fallback(S, controlContent, pcmContent)
    IN IF ~HaveROMSet(S.slots, "Any") THEN fb ELSE [fb EXCEPT !.ret = TRUE]

\* What follows the loop: the completeness test, the fallback and the return.
ScanTail(S, controlContent, pcmContent) ==
    IF ~HaveROMSet(S.slots, "Any")
    THEN Fallback(S, controlContent, pcmContent)
    ELSE [ret |-> TRUE, store |-> S, log |-> <<>>]

ScanReturn ==
    /\ pc = "walk"
    /\ ~LoopCondition
    /\ \E controlContent \in Contents, pcmContent \in Contents :
         \* a legacy file the call never opens has no content to choose
         /\ HaveROMSet(slots, "Any") => controlContent = "unreadable"
         /\ ~CheckROM(Store, RootPath(MT32ControlROMName), controlContent).ret
              => pcmContent = "unreadable"
         /\ LET tail == ScanTail(Store, controlContent, pcmContent)
            IN
            /\ slots' = tail.store.slots
            /\ calls' = tail.store.calls
            /\ roms' = tail.store.roms
            /\ romFrees' = tail.store.romFrees
            /\ fileDeletes' = tail.store.fileDeletes
            /\ fallback' = tail.log
            /\ scanRet' = tail.ret
            /\ firstValid' = NoteAttempts(firstValid, tail.log)
    /\ walkSlots' = slots
    /\ pc' = "scanned"
    \* result and fileInfo are locals of ScanROMs: they end with the call
    /\ result' = "FR_OK"
    /\ fileInfo' = EndOfDir
    /\ UNCHANGED <<seen, getRet, pOutControl, pOutPCM>>

\* ------------------------------------------------------------- GetROMSet
\* GetROMSet whose Any case always takes the MT-32 PCM slot.
GetROMSet_AnyMT32PCM(s, ROMSet, outControl, outPCM) ==
    IF ~HaveROMSet(s, ROMSet)
    THEN [ret |-> FALSE, pOutControl |-> outControl, pOutPCM |-> outPCM]
    ELSE CASE ROMSet = "Any" ->
                LET control == IF s["mMT32OldControl"] # nullptr
                               THEN s["mMT32OldControl"]
                               ELSE IF s["mMT32NewControl"] # nullptr
                                    THEN s["mMT32NewControl"]
                                    ELSE s["mCM32LControl"]
                    pcm == s["mMT32PCM"]
                IN [ret |-> TRUE, pOutControl |-> control, pOutPCM |-> pcm]
           [] ROMSet = "MT32Old" ->
                [ret |-> TRUE, pOutControl |-> s["mMT32OldControl"], pOutPCM |-> s["mMT32PCM"]]
           [] ROMSet = "MT32New" ->
                [ret |-> TRUE, pOutControl |-> s["mMT32NewControl"], pOutPCM |-> s["mMT32PCM"]]
           [] ROMSet = "CM32L" ->
                [ret |-> TRUE, pOutControl |-> s["mCM32LControl"], pOutPCM |-> s["mCM32LPCM"]]
           [] OTHER ->
                [ret |-> TRUE, pOutControl |-> outControl, pOutPCM |-> outPCM]

\* GetROMSet whose Any case takes the CM-32L PCM whenever there is one.
GetROMSet_AnyPrefersCM32LPCM(s, ROMSet, outControl, outPCM) ==
    IF ~HaveROMSet(s, ROMSet)
    THEN [ret |-> FALSE, pOutControl |-> outControl, pOutPCM |-> outPCM]
    ELSE CASE ROMSet = "Any" ->
                LET control == IF s["mMT32OldControl"] # nullptr
                               THEN s["mMT32OldControl"]
                               ELSE IF s["mMT32NewControl"] # nullptr
                                    THEN s["mMT32NewControl"]
                                    ELSE s["mCM32LControl"]
                    pcm == IF s["mCM32LPCM"] # nullptr
                           THEN s["mCM32LPCM"]
                           ELSE s["mMT32PCM"]
                IN [ret |-> TRUE, pOutControl |-> control, pOutPCM |-> pcm]
           [] ROMSet = "MT32Old" ->
                [ret |-> TRUE, pOutControl |-> s["mMT32OldControl"], pOutPCM |-> s["mMT32PCM"]]
           [] ROMSet = "MT32New" ->
                [ret |-> TRUE, pOutControl |-> s["mMT32NewControl"], pOutPCM |-> s["mMT32PCM"]]
           [] ROMSet = "CM32L" ->
                [ret |-> TRUE, pOutControl |-> s["mCM32LControl"], pOutPCM |-> s["mCM32LPCM"]]
           [] OTHER ->
                [ret |-> TRUE, pOutControl |-> outControl, pOutPCM |-> outPCM]

\* GetROMSet without the HaveROMSet test.
GetROMSet_NoCheck(s, ROMSet, outControl, outPCM) ==
    IF FALSE
    THEN [ret |-> FALSE, pOutControl |-> outControl, pOutPCM |-> outPCM]
    ELSE CASE ROMSet = "Any" ->
                LET control == IF s["mMT32OldControl"] # nullptr
                               THEN s["mMT32OldControl"]
                               ELSE IF s["mMT32NewControl"] # nullptr
                                    THEN s["mMT32NewControl"]
                                    ELSE s["mCM32LControl"]
                    pcm == IF control = s["mCM32LControl"] /\ s["mCM32LPCM"] # nullptr
                           THEN s["mCM32LPCM"]
                           ELSE s["mMT32PCM"]
                IN [ret |-> TRUE, pOutControl |-> control, pOutPCM |-> pcm]
           [] ROMSet = "MT32Old" ->
                [ret |-> TRUE, pOutControl |-> s["mMT32OldControl"], pOutPCM |-> s["mMT32PCM"]]
           [] ROMSet = "MT32New" ->
                [ret |-> TRUE, pOutControl |-> s["mMT32NewControl"], pOutPCM |-> s["mMT32PCM"]]
           [] ROMSet = "CM32L" ->
                [ret |-> TRUE, pOutControl |-> s["mCM32LControl"], pOutPCM |-> s["mCM32LPCM"]]
           [] OTHER ->
                [ret |-> TRUE, pOutControl |-> outControl, pOutPCM |-> outPCM]

\* GetROMSet whose Any case looks at the new control before the old one.
GetROMSet_NewBeforeOld(s, ROMSet, outControl, outPCM) ==
    IF ~HaveROMSet(s, ROMSet)
    THEN [ret |-> FALSE, pOutControl |-> outControl, pOutPCM |-> outPCM]
    ELSE CASE ROMSet = "Any" ->
                LET control == IF s["mMT32NewControl"] # nullptr
                               THEN s["mMT32NewControl"]
                               ELSE IF s["mMT32OldControl"] # nullptr
                                    THEN s["mMT32OldControl"]
                                    ELSE s["mCM32LControl"]
                    pcm == IF control = s["mCM32LControl"] /\ s["mCM32LPCM"] # nullptr
                           THEN s["mCM32LPCM"]
                           ELSE s["mMT32PCM"]
                IN [ret |-> TRUE, pOutControl |-> control, pOutPCM |-> pcm]
           [] ROMSet = "MT32Old" ->
                [ret |-> TRUE, pOutControl |-> s["mMT32OldControl"], pOutPCM |-> s["mMT32PCM"]]
           [] ROMSet = "MT32New" ->
                [ret |-> TRUE, pOutControl |-> s["mMT32NewControl"], pOutPCM |-> s["mMT32PCM"]]
           [] ROMSet = "CM32L" ->
                [ret |-> TRUE, pOutControl |-> s["mCM32LControl"], pOutPCM |-> s["mCM32LPCM"]]
           [] OTHER ->
                [ret |-> TRUE, pOutControl |-> outControl, pOutPCM |-> outPCM]

GetROMSet(s, ROMSet, outControl, outPCM) ==
    IF ~HaveROMSet(s, ROMSet)
    THEN [ret |-> FALSE, pOutControl |-> outControl, pOutPCM |-> outPCM]
    ELSE CASE ROMSet = "Any" ->
                LET control == IF s["mMT32OldControl"] # nullptr
                               THEN s["mMT32OldControl"]
                               ELSE IF s["mMT32NewControl"] # nullptr
                                    THEN s["mMT32NewControl"]
                                    ELSE s["mCM32LControl"]
                    pcm == IF control = s["mCM32LControl"] /\ s["mCM32LPCM"] # nullptr
                           THEN s["mCM32LPCM"]
                           ELSE s["mMT32PCM"]
                IN [ret |-> TRUE, pOutControl |-> control, pOutPCM |-> pcm]
           [] ROMSet = "MT32Old" ->
                [ret |-> TRUE, pOutControl |-> s["mMT32OldControl"], pOutPCM |-> s["mMT32PCM"]]
           [] ROMSet = "MT32New" ->
                [ret |-> TRUE, pOutControl |-> s["mMT32NewControl"], pOutPCM |-> s["mMT32PCM"]]
           [] ROMSet = "CM32L" ->
                [ret |-> TRUE, pOutControl |-> s["mCM32LControl"], pOutPCM |-> s["mCM32LPCM"]]
           [] OTHER ->
                [ret |-> TRUE, pOutControl |-> outControl, pOutPCM |-> outPCM]

GetROMSetCall(ROMSet) ==
    /\ pc \in {"constructed", "scanned"}
    /\ LET got == GetROMSet(slots, ROMSet, Indeterminate, Indeterminate)
       IN /\ getRet' = got.ret
          /\ pOutControl' = got.pOutControl
          /\ pOutPCM' = got.pOutPCM
    /\ UNCHANGED <<pc, slots, result, fileInfo, seen, calls, roms, romFrees, fileDeletes,
                   walkSlots, fallback, scanRet, firstValid>>

\* ------------------------------------------------------------ destructor
\* The destructor's loop without the test for an empty slot.
RECURSIVE FreeSlots_NoNullTest(_, _, _)
FreeSlots_NoNullTest(s, frees, i) ==
    IF i > Len(SlotOrder) THEN frees
    ELSE FreeSlots_NoNullTest(s, frees (+) SetToBag({s[SlotOrder[i]].id}), i + 1)

RECURSIVE FreeSlots(_, _, _)
FreeSlots(s, frees, i) ==
    IF i > Len(SlotOrder) THEN frees
    ELSE FreeSlots(s,
                   IF s[SlotOrder[i]] # nullptr
                   THEN frees (+) SetToBag({s[SlotOrder[i]].id})
                   ELSE frees,
                   i + 1)

Destructor ==
    /\ pc \in {"constructed", "scanned"}
    /\ pc' = "destroyed"
    /\ romFrees' = FreeSlots(slots, romFrees, 1)
    /\ UNCHANGED <<slots, result, fileInfo, seen, calls, roms, fileDeletes,
                   walkSlots, fallback, scanRet, getRet, pOutControl, pOutPCM, firstValid>>

Next ==
    \/ ScanFindFirst
    \/ ScanLoopBody
    \/ ScanReturn
    \/ \E ROMSet \in TROMSet : GetROMSetCall(ROMSet)
    \/ Destructor

Spec == Init /\ [][Next]_vars

\* ------------------------------------------------- vocabulary of the claims
\* ScanROMs has returned (and nothing has been destroyed yet).
Done == pc = "scanned"
ControlPath == RootPath(MT32ControlROMName)
PCMPath == RootPath(MT32PCMROMName)

FilledSlots(s) == {slot \in SlotNames : Filled(s, slot)}
HeldIds(s) == {s[slot].id : slot \in FilledSlots(s)}

\* The content of the file a directory path names.
ContentAt(path) == path[2][1]
DirIds == {id \in roms : id[1] = ROMPath}

\* Every filled/empty combination of the five slots, each filled slot holding
\* an image of its own kind (a directory of five ROM files fills all five).
ProbeContent ==
    [slot \in SlotNames |->
        CHOOSE c \in ROMNames : c # "ctrl_mt32_bluer" /\ ClassOf(c) = slot]
ProbeImage(slot) == makeROMImage(<<"probe", slot>>, ProbeContent[slot])
SlotStates ==
    {[slot \in SlotNames |-> IF slot \in F THEN ProbeImage(slot) ELSE nullptr] :
        F \in SUBSET SlotNames}

\* ---------------------------------------------------------------------- C1
\* The contents that make a descriptor of Control or PCM kind.
ValidContents == {c \in ROMNames : ClassOf(c) # "none"}

\* C1: in every reachable store state, StoreROM of a valid (Control or PCM)
\* descriptor whose classification maps to an already filled slot returns false
\* and leaves all five slots exactly as they were.
C1_DuplicateRejected ==
    \A c \in ValidContents :
        Filled(slots, ClassOf(c))
            => StoreROM(slots, makeROMImage(<<"candidate", c>>, c))
                 = [ret |-> FALSE, slots |-> slots]

\* A directory file of Control or PCM kind was turned away during the walk while
\* another image sits in its slot.
C1_Witness ==
    /\ pc = "walk"
    /\ \E id \in DirIds :
         /\ ClassOf(ContentAt(id)) # "none"
         /\ CopiesIn(id, romFrees) = 1
         /\ Filled(slots, ClassOf(ContentAt(id)))
         /\ slots[ClassOf(ContentAt(id))].id # id

\* ---------------------------------------------------------------------- C2
HaveTable(s) ==
    /\ HaveROMSet(s, "Any")
         = ((Filled(s, "mMT32OldControl") \/ Filled(s, "mMT32NewControl")
               \/ Filled(s, "mCM32LControl"))
            /\ (Filled(s, "mMT32PCM") \/ Filled(s, "mCM32LPCM")))
    /\ HaveROMSet(s, "MT32Old") = (Filled(s, "mMT32OldControl") /\ Filled(s, "mMT32PCM"))
    /\ HaveROMSet(s, "MT32New") = (Filled(s, "mMT32NewControl") /\ Filled(s, "mMT32PCM"))
    /\ HaveROMSet(s, "CM32L") = (Filled(s, "mCM32LControl") /\ Filled(s, "mCM32LPCM"))
HaveTableAll == \A s \in SlotStates : HaveTable(s)

\* C2: for each of the 32 filled/empty combinations and for every reachable
\* store, HaveROMSet(Any) holds iff some control slot and some PCM slot are
\* filled, and HaveROMSet of a named kind iff that kind's control slot and PCM
\* slot are both filled.
C2_HaveROMSetTable == HaveTable(slots) /\ HaveTableAll

\* A scan ended with a CM-32L control and the CM-32L PCM only: Any is complete
\* through the second PCM slot, as is CM32L, and no MT-32 kind is.
C2_Witness ==
    /\ pc = "scanned"
    /\ FilledSlots(slots) = {"mCM32LControl", "mCM32LPCM"}
    /\ scanRet
    /\ HaveROMSet(slots, "Any") /\ HaveROMSet(slots, "CM32L")
    /\ ~HaveROMSet(slots, "MT32Old") /\ ~HaveROMSet(slots, "MT32New")

\* ---------------------------------------------------------------------- C3
\* A fallback CheckROM call that returned true opened its file, had it
\* validated and left its image in the slot of its class.
FallbackStored(call) ==
    /\ call.ret
    /\ Recognized(call.content)
    /\ ClassOf(call.content) # "none"
    /\ slots[ClassOf(call.content)].id = call.path

BothFallbackSucceeded ==
    /\ Len(fallback) = 2
    /\ fallback[1].path = ControlPath /\ FallbackStored(fallback[1])
    /\ fallback[2].path = PCMPath /\ FallbackStored(fallback[2])

\* C3: ScanROMs returns true exactly when the walk left a complete Any set, or
\* it did not and both fallback CheckROM calls (control file, then PCM file)
\* succeeded; it returns false in every other outcome.
C3_ScanResult ==
    Done =>
      /\ scanRet = (HaveROMSet(walkSlots, "Any")
                    \/ (~HaveROMSet(walkSlots, "Any") /\ BothFallbackSucceeded))
      /\ \A i \in 1..Len(fallback) : fallback[i].ret => FallbackStored(fallback[i])

\* The scan succeeded through the fallback pair alone.
C3_Witness ==
    /\ pc = "scanned"
    /\ scanRet
    /\ ~HaveROMSet(walkSlots, "Any")
    /\ BothFallbackSucceeded

\* ---------------------------------------------------------------------- C4
\* C4 as stated: whenever the walk ends without a complete Any set, both
\* legacy files are attempted, each exactly once, before ScanROMs returns.
C4_BothAlwaysAttempted ==
    (Done /\ ~HaveROMSet(walkSlots, "Any"))
        => /\ CopiesIn(ControlPath, calls) = 1
           /\ CopiesIn(PCMPath, calls) = 1

\* C4, amended: whenever the walk ends without a complete Any set, the legacy
\* control file is attempted exactly once, and the legacy PCM file is attempted
\* exactly once if that attempt succeeded and not at all if it failed.
C4_FallbackAttempts ==
    (Done /\ ~HaveROMSet(walkSlots, "Any"))
        => /\ CopiesIn(ControlPath, calls) = 1
           /\ Len(fallback) >= 1
           /\ fallback[1].path = ControlPath
           /\ CopiesIn(PCMPath, calls) = (IF fallback[1].ret THEN 1 ELSE 0)
           /\ Len(fallback) = (IF fallback[1].ret THEN 2 ELSE 1)
           /\ fallback[1].ret => fallback[2].path = PCMPath

\* The directory could not give a set, the legacy control file failed and the
\* PCM file was left alone.
C4_Witness ==
    /\ pc = "scanned"
    /\ ~HaveROMSet(walkSlots, "Any")
    /\ Len(fallback) = 1
    /\ ~fallback[1].ret
    /\ CopiesIn(ControlPath, calls) = 1
    /\ CopiesIn(PCMPath, calls) = 0

\* ---------------------------------------------------------------------- C5
NamedKinds == {"MT32Old", "MT32New", "CM32L"}
KindSlots(kind) ==
    CASE kind = "MT32Old" -> {"mMT32OldControl", "mMT32PCM"}
      [] kind = "MT32New" -> {"mMT32NewControl", "mMT32PCM"}
      [] kind = "CM32L" -> {"mCM32LControl", "mCM32LPCM"}

\* The walk stored nothing and both legacy files are present and valid.  The
\* PCM file goes unread when the control file is turned away; what it holds
\* cannot change the outcome then, so it may be taken to be valid.
LegacyPairValid ==
    /\ Done
    /\ walkSlots = EmptySlots
    /\ Len(fallback) >= 1
    /\ \A i \in 1..Len(fallback) : Recognized(fallback[i].content)

\* C5 as stated: with nothing stored by the walk and both legacy files valid,
\* ScanROMs returns true and some named kind is complete afterwards.
C5_LegacyPairGivesNamedSet ==
    LegacyPairValid => (scanRet /\ \E kind \in NamedKinds : HaveROMSet(slots, kind))

\* C5, amended: with nothing stored by the walk and both legacy files valid,
\* ScanROMs returns true iff both images are of Control or PCM kind and
\* classify to two different slots; those two slots are then the filled ones,
\* and a named kind is complete afterwards exactly when they are its control
\* slot and its PCM slot.
C5_LegacyPairOutcome ==
    LegacyPairValid =>
      LET first == ClassOf(fallback[1].content)
      IN /\ Len(fallback) = (IF first = "none" THEN 1 ELSE 2)
         /\ scanRet = (/\ first # "none"
                       /\ ClassOf(fallback[2].content) # "none"
                       /\ ClassOf(fallback[2].content) # first)
         /\ scanRet =>
              /\ FilledSlots(slots) = {first, ClassOf(fallback[2].content)}
              /\ \A kind \in NamedKinds :
                   HaveROMSet(slots, kind)
                     = (KindSlots(kind) = {first, ClassOf(fallback[2].content)})

\* An empty walk and a new-generation MT-32 pair in the legacy files.
C5_Witness ==
    /\ pc = "scanned"
    /\ LegacyPairValid
    /\ scanRet
    /\ fallback[1].content = "ctrl_mt32_2_04"
    /\ fallback[2].content = "pcm_mt32"
    /\ HaveROMSet(slots, "MT32New")

\* ---------------------------------------------------------------------- C6
PlainFile(content) == [fattrib |-> AM_ARC, content |-> content]

\* The directory held one old MT-32 control ROM, the MT-32 PCM ROM and nothing else.
OldPairOnly ==
    \E c \in {"ctrl_mt32_1_07", "ctrl_mt32_bluer"} :
        seen = SetToBag({PlainFile(c), PlainFile("pcm_mt32")})

\* C6: when the walk leaves a complete Any set, ScanROMs returns true and
\* neither legacy file is opened; for a directory of exactly one old MT-32
\* control ROM and the MT-32 PCM ROM, ScanROMs returns true, HaveROMSet(MT32Old)
\* holds and HaveROMSet(CM32L) does not.
C6_NoFallbackWhenComplete ==
    /\ (Done /\ HaveROMSet(walkSlots, "Any"))
         => /\ scanRet
            /\ fallback = <<>>
            /\ CopiesIn(ControlPath, calls) = 0
            /\ CopiesIn(PCMPath, calls) = 0
    /\ (Done /\ OldPairOnly)
         => /\ scanRet
            /\ fallback = <<>>
            /\ HaveROMSet(slots, "MT32Old")
            /\ ~HaveROMSet(slots, "CM32L")

C6_Witness ==
    /\ pc = "scanned"
    /\ OldPairOnly
    /\ scanRet
    /\ HaveROMSet(walkSlots, "Any")
    /\ BagCardinality(calls) = 2

\* ---------------------------------------------------------------------- C7
GetAny(s) == GetROMSet(s, "Any", Indeterminate, Indeterminate)
Pair(control, pcm) == [ret |-> TRUE, pOutControl |-> control, pOutPCM |-> pcm]

CM32LPairAlways(s) ==
    (Filled(s, "mCM32LControl") /\ Filled(s, "mCM32LPCM"))
        => GetAny(s) = Pair(s["mCM32LControl"], s["mCM32LPCM"])

\* C7 as stated: whenever the CM32L-control and CM32L-PCM slots are both
\* filled, GetROMSet(Any) returns (CM32L-control, CM32L-PCM).
C7_CM32LPairAlways == CM32LPairAlways(slots)

CM32LPair(s) ==
    (Filled(s, "mCM32LControl") /\ Filled(s, "mCM32LPCM")) =>
      /\ GetAny(s).ret
      /\ GetAny(s) # Pair(s["mCM32LControl"], s["mMT32PCM"])
      /\ (~Filled(s, "mMT32OldControl") /\ ~Filled(s, "mMT32NewControl"))
           => GetAny(s) = Pair(s["mCM32LControl"], s["mCM32LPCM"])
      /\ Filled(s, "mMT32OldControl")
           => GetAny(s) = Pair(s["mMT32OldControl"], s["mMT32PCM"])
      /\ (~Filled(s, "mMT32OldControl") /\ Filled(s, "mMT32NewControl"))
           => GetAny(s) = Pair(s["mMT32NewControl"], s["mMT32PCM"])
CM32LPairAll == \A s \in SlotStates : CM32LPair(s)

\* C7, amended: whenever the CM32L-control and CM32L-PCM slots are both filled,
\* GetROMSet(Any) returns true and never (CM32L-control, MT32-PCM); it returns
\* (CM32L-control, CM32L-PCM) when neither MT-32 control slot is filled, and
\* otherwise the first filled MT-32 control with the content of the MT32-PCM slot.
C7_CM32LPair == CM32LPair(slots) /\ CM32LPairAll

\* GetROMSet(Any) gave the CM-32L pair although the MT-32 PCM was there too.
C7_Witness ==
    /\ pc = "scanned"
    /\ FilledSlots(slots) = {"mCM32LControl", "mCM32LPCM", "mMT32PCM"}
    /\ getRet
    /\ pOutControl = slots["mCM32LControl"]
    /\ pOutPCM = slots["mCM32LPCM"]

\* ---------------------------------------------------------------------- C8
MT32ControlChosen(s) ==
    GetAny(s).pOutControl \in {s["mMT32OldControl"], s["mMT32NewControl"]} \ {nullptr}

MT32PairingAsStated(s) ==
    HaveROMSet(s, "Any") =>
      /\ MT32ControlChosen(s) => GetAny(s).pOutPCM = s["mMT32PCM"]
      /\ (Filled(s, "mMT32NewControl") /\ Filled(s, "mMT32PCM") /\ Filled(s, "mCM32LPCM"))
           => GetAny(s) = Pair(s["mMT32NewControl"], s["mMT32PCM"])

\* C8 as stated: an MT-32 control is only ever paired with the MT32-PCM slot,
\* and with MT32-new-control and both PCM slots filled GetROMSet(Any) returns
\* (MT32-new-control, MT32-PCM).
C8_MT32PairingAsStated == MT32PairingAsStated(slots)

MT32Pairing(s) ==
    HaveROMSet(s, "Any") =>
      /\ MT32ControlChosen(s) => GetAny(s).pOutPCM = s["mMT32PCM"]
      /\ (Filled(s, "mMT32NewControl") /\ Filled(s, "mMT32PCM") /\ Filled(s, "mCM32LPCM"))
           => GetAny(s) = Pair(IF Filled(s, "mMT32OldControl")
                               THEN s["mMT32OldControl"]
                               ELSE s["mMT32NewControl"],
                               s["mMT32PCM"])
MT32PairingAll == \A s \in SlotStates : MT32Pairing(s)

\* C8, amended: an MT-32 control is only ever paired with the MT32-PCM slot,
\* and with MT32-new-control and both PCM slots filled GetROMSet(Any) returns
\* (MT32-new-control, MT32-PCM) when MT32-old-control is empty and
\* (MT32-old-control, MT32-PCM) when it is filled.
C8_MT32Pairing == MT32Pairing(slots) /\ MT32PairingAll

\* GetROMSet(Any) gave (MT32-new-control, MT32-PCM) with both PCM slots filled.
C8_Witness ==
    /\ pc = "scanned"
    /\ FilledSlots(slots) = {"mMT32NewControl", "mMT32PCM", "mCM32LPCM"}
    /\ getRet
    /\ pOutControl = slots["mMT32NewControl"]
    /\ pOutPCM = slots["mMT32PCM"]

\* ---------------------------------------------------------------------- C9
\* Two distinguishable values for the caller's variables.
MarkControl == [id |-> <<"caller", "control">>, info |-> NoInfo]
MarkPCM == [id |-> <<"caller", "pcm">>, info |-> NoInfo]

GetContract(s) ==
    \A kind \in TROMSet :
        LET got == GetROMSet(s, kind, MarkControl, MarkPCM)
        IN /\ got.ret = HaveROMSet(s, kind)
           /\ ~got.ret => (got.pOutControl = MarkControl /\ got.pOutPCM = MarkPCM)
           /\ (got.ret /\ kind = "MT32Old")
                => (got.pOutControl = s["mMT32OldControl"] /\ got.pOutPCM = s["mMT32PCM"])
           /\ (got.ret /\ kind = "MT32New")
                => (got.pOutControl = s["mMT32NewControl"] /\ got.pOutPCM = s["mMT32PCM"])
           /\ (got.ret /\ kind = "CM32L")
                => (got.pOutControl = s["mCM32LControl"] /\ got.pOutPCM = s["mCM32LPCM"])
GetContractAll == \A s \in SlotStates : GetContract(s)

\* C9: for every kind and store state GetROMSet(kind) returns true iff
\* HaveROMSet(kind) holds, leaves both outputs unwritten when it returns false,
\* and for MT32Old, MT32New and CM32L returns that kind's control and PCM slots.
C9_GetROMSetContract ==
    /\ GetContract(slots)
    /\ GetContractAll
    /\ ~getRet => (pOutControl = Indeterminate /\ pOutPCM = Indeterminate)

\* GetROMSet(MT32New) answered while the old control, which Any would have
\* picked, was there as well.
C9_Witness ==
    /\ pc = "scanned"
    /\ Filled(slots, "mMT32OldControl")
    /\ getRet
    /\ pOutControl = slots["mMT32NewControl"]
    /\ pOutPCM = slots["mMT32PCM"]
    /\ ~HaveROMSet(slots, "CM32L")

\* --------------------------------------------------------------------- C10
\* C10: every descriptor the validator produced is released exactly once over
\* the store's lifetime: one that was turned away is released at once by
\* CheckROM and never again, one that was stored is released by the destructor
\* only, and the destructor releases the images of the filled slots, once each,
\* and nothing for an empty slot.
C10_ReleasedExactlyOnce ==
    /\ \A id \in BagToSet(romFrees) : id \in roms /\ CopiesIn(id, romFrees) = 1
    /\ HeldIds(slots) \subseteq roms
    /\ pc # "destroyed" => BagToSet(romFrees) = roms \ HeldIds(slots)
    /\ pc = "destroyed" => BagToSet(romFrees) = roms

\* A store destroyed with some slots filled, some empty and some descriptors
\* turned away before.
C10_Witness ==
    /\ pc = "destroyed"
    /\ Cardinality(FilledSlots(slots)) \in 1..4
    /\ roms \ HeldIds(slots) # {}
    /\ \A id \in HeldIds(slots) : CopiesIn(id, romFrees) = 1

\* --------------------------------------------------------------------- C11
SlotsAreFirstValid == \A slot \in SlotNames : slots[slot].id = firstValid[slot]

\* C11: first valid one wins.  After ScanROMs (and at every point of it) each
\* slot holds the first candidate, in the order CheckROM was called, that
\* validated and classified to it, and is empty if there was none; a filled
\* slot never changes, and the slots change only in a step that calls CheckROM.
C11_FirstValidWins ==
    /\ []SlotsAreFirstValid
    /\ [][/\ \A slot \in SlotNames : Filled(slots, slot) => slots'[slot] = slots[slot]
          /\ slots' # slots => calls' # calls]_vars

\* After a scan a slot holds the first of two directory files of its class,
\* and another holds the legacy control file that came after the walk.
C11_Witness ==
    /\ pc = "scanned"
    /\ \E slot \in SlotNames, id \in DirIds :
         /\ ClassOf(ContentAt(id)) = slot
         /\ CopiesIn(id, romFrees) = 1
         /\ slots[slot].id # id
         /\ slots[slot].id[1] = ROMPath
    /\ \E slot \in SlotNames : slots[slot].id = ControlPath

\* --------------------------------------------------------------------- C12
\* A name token with c4 at index 4 and c10 at index 10.
Token(c4, c10) == <<"x", "x", "x", "x", c4, "x", "x", "x", "x", "x", c10, "x">>
Tokens == {Token(c4, c10) : c4 \in {"m", "c", "_"}, c10 \in {"1", "b", "2", "_", "l"}}

\* No ROM info, and every kind with every token.
Descriptors == {NoInfo} \cup [type : {"Control", "PCM", "Reverb"}, shortName : Tokens]

TargetOf(info) ==
    CASE info = NoInfo -> "none"
      [] info.type = "Control" /\ info.shortName[11] \in {"1", "b"} -> "mMT32OldControl"
      [] info.type = "Control" /\ info.shortName[11] = "2" -> "mMT32NewControl"
      [] info.type = "Control" -> "mCM32LControl"
      [] info.type = "PCM" /\ info.shortName[5] = "m" -> "mMT32PCM"
      [] info.type = "PCM" -> "mCM32LPCM"
      [] OTHER -> "none"

Classified(s, infos) ==
    \A info \in infos :
        LET image == [id |-> <<"candidate">>, info |-> info]
            stored == StoreROM(s, image)
            target == TargetOf(info)
        IN /\ target = "none" => stored = [ret |-> FALSE, slots |-> s]
           /\ (target # "none" /\ Filled(s, target))
                => stored = [ret |-> FALSE, slots |-> s]
           /\ (target # "none" /\ ~Filled(s, target))
                => /\ stored.ret
                   /\ stored.slots[target] = image
                   /\ \A other \in SlotNames \ {target} : stored.slots[other] = s[other]
ClassifiedAll == \A s \in SlotStates : Classified(s, Descriptors)
FileInfos == {ROMInfoOf(c) : c \in Contents}

\* C12: StoreROM sends every descriptor to exactly one slot or rejects it: no
\* ROM info, or a kind other than Control and PCM, is rejected with the slots
\* unchanged; Control goes by index 10 ('1' or 'b' old, '2' new, else CM-32L),
\* PCM by index 4 ('m' MT-32, else CM-32L); a successful store changes the
\* target slot only.  Checked for every descriptor on each of the 32 slot
\* combinations, for the files' descriptors on every reachable store, and for
\* what the slots of a reachable store hold.
C12_Classification ==
    /\ ClassifiedAll
    /\ Classified(slots, FileInfos)
    /\ \A slot \in FilledSlots(slots) : TargetOf(slots[slot].info) = slot

\* A scan met a ROM of a third kind, which was turned away, and stored the
\* 'b' control ROM as the old one and a CM-32L control by the catch-all.
C12_Witness ==
    /\ pc = "scanned"
    /\ \E id \in DirIds : ContentAt(id) = "reverb" /\ CopiesIn(id, romFrees) = 1
    /\ slots["mMT32OldControl"].info = ROMInfoOf("ctrl_mt32_bluer")
    /\ Filled(slots, "mCM32LControl")

\* --------------------------------------------------------------------- C13
ControlOrder == <<"mMT32OldControl", "mMT32NewControl", "mCM32LControl">>
\* The first filled control slot; there is one whenever Any is complete.
FirstControl(s) ==
    ControlOrder[CHOOSE i \in 1..3 :
                    /\ Filled(s, ControlOrder[i])
                    /\ \A j \in 1..(i - 1) : ~Filled(s, ControlOrder[j])]

AnyRule(s) ==
    HaveROMSet(s, "Any") =>
      /\ GetAny(s).ret
      /\ GetAny(s).pOutControl = s[FirstControl(s)]
      /\ GetAny(s).pOutPCM
           = (IF FirstControl(s) = "mCM32LControl" /\ Filled(s, "mCM32LPCM")
              THEN s["mCM32LPCM"]
              ELSE s["mMT32PCM"])
      /\ FilledSlots(s) = {"mCM32LControl", "mMT32PCM"}
           => GetAny(s) = Pair(s["mCM32LControl"], s["mMT32PCM"])
AnyRuleAll == \A s \in SlotStates : AnyRule(s)

\* C13: whenever HaveROMSet(Any) holds, GetROMSet(Any) takes the control from
\* the first filled slot in the order old, new, CM-32L, and the PCM from the
\* CM32L-PCM slot iff the control came from the CM32L-control slot and
\* CM32L-PCM is filled, otherwise from the MT32-PCM slot; with only
\* CM32L-control and MT32-PCM filled it returns (CM32L-control, MT32-PCM).
C13_AnySelection == AnyRule(slots) /\ AnyRuleAll

\* GetROMSet(Any) answered with only the CM-32L control and the MT-32 PCM stored.
C13_Witness ==
    /\ pc = "scanned"
    /\ FilledSlots(slots) = {"mCM32LControl", "mMT32PCM"}
    /\ getRet
    /\ pOutControl = slots["mCM32LControl"]
    /\ pOutPCM = slots["mMT32PCM"]

\* --------------------------------------------------------------------- C14
Skipped(fattrib) == fattrib \in {AM_DIR, AM_HID, AM_SYS}
\* The entries the enumeration has handed out.
Enumerated ==
    {EntryOf(kind, n) : <<kind, n>> \in
        {kn \in BagToSet(seen) \X (1..MaxDirLen) : kn[2] <= CopiesIn(kn[1], seen)}}
\* The entry the loop is about to look at.
Pending == IF pc = "walk" /\ LoopCondition THEN {fileInfo} ELSE {}

WalkedOnce ==
    /\ \A entry \in Enumerated \ Pending :
         CopiesIn(DirPath(entry.fname), calls) = (IF Skipped(entry.fattrib) THEN 0 ELSE 1)
    /\ \A entry \in Pending : CopiesIn(DirPath(entry.fname), calls) = 0
    /\ BagToSet(calls) \subseteq
         {DirPath(entry.fname) : entry \in Enumerated} \cup {ControlPath, PCMPath}
    /\ pc \in {"constructed", "walk"}
         => (CopiesIn(ControlPath, calls) = 0 /\ CopiesIn(PCMPath, calls) = 0)

\* The entries the loop is done with.
Processed == Enumerated \ Pending

\* C14: for a finite listing ScanROMs terminates: while the loop condition
\* holds the loop can take its next turn, and every turn finishes one more of
\* the at most MaxDirLen entries, so after that many turns only the code after
\* the loop, which waits for nothing, is left.  Every
\* entry not marked directory, hidden or system is passed to CheckROM exactly
\* once, whatever happened to the entries before it; marked entries are never
\* opened; and the legacy files are attempted only after the walk.
C14_WalkTerminatesOncePerEntry ==
    /\ []WalkedOnce
    /\ [](Cardinality(Enumerated) <= MaxDirLen)
    /\ []((pc = "walk" /\ LoopCondition) => ENABLED ScanLoopBody)
    /\ [][(pc = "walk" /\ pc' = "walk")
            => Cardinality(Processed') = Cardinality(Processed) + 1]_vars

\* A scan went on past a file that is no ROM and a duplicate, and left a
\* hidden file alone.
C14_Witness ==
    /\ pc = "scanned"
    /\ CopiesIn(PlainFile("junk"), seen) = 1
    /\ CopiesIn(PlainFile("pcm_mt32"), seen) = 2
    /\ CopiesIn([fattrib |-> AM_HID, content |-> "pcm_mt32"], seen) = 1
    /\ BagCardinality(calls) >= 3
    /\ Filled(slots, "mMT32PCM")

\* --------------------------------------------------------------------- C15
Holders(path) == {slot \in SlotNames : slots[slot].id = path}

\* C15: a CheckROM call that returned false (no open, no ROM, a kind no slot
\* takes, a filled slot) has released its stream exactly once and the
\* descriptor it got, if any, exactly once, and no slot refers to either; one
\* that returned true left its descriptor in exactly one slot, and neither the
\* descriptor (before the store is destroyed) nor its stream has been released.
C15_OwnershipTransfer ==
    /\ \A path \in BagToSet(calls) :
         IF Holders(path) = {}
         THEN /\ CopiesIn(path, fileDeletes) = 1
              /\ CopiesIn(path, romFrees) = (IF path \in roms THEN 1 ELSE 0)
         ELSE /\ Cardinality(Holders(path)) = 1
              /\ path \in roms
              /\ CopiesIn(path, fileDeletes) = 0
              /\ pc # "destroyed" => CopiesIn(path, romFrees) = 0
    /\ \A i \in 1..Len(fallback) : fallback[i].ret = (Holders(fallback[i].path) # {})
    /\ HeldIds(slots) \subseteq BagToSet(calls)

\* A scan in which one file did not open, one descriptor was turned away and
\* one was stored.
C15_Witness ==
    /\ pc = "scanned"
    /\ \E path \in BagToSet(calls) : path \notin roms /\ CopiesIn(path, fileDeletes) = 1
    /\ \E path \in roms : CopiesIn(path, romFrees) = 1 /\ CopiesIn(path, fileDeletes) = 1
    /\ \E path \in HeldIds(slots) :
         CopiesIn(path, romFrees) = 0 /\ CopiesIn(path, fileDeletes) = 0

\* --------------------------------------------------------------------- C16
\* C16: whenever GetROMSet(kind) returns true, for any kind, the control output
\* is an image held in a control slot and the PCM output is an image held in a
\* PCM slot; neither is an empty slot's null.
C16_OutputsNonEmpty ==
    \A kind \in TROMSet :
        LET got == GetROMSet(slots, kind, Indeterminate, Indeterminate)
        IN got.ret =>
             /\ got.pOutControl # nullptr
             /\ got.pOutControl.info.type = "Control"
             /\ got.pOutControl.id \in HeldIds(slots)
             /\ got.pOutPCM # nullptr
             /\ got.pOutPCM.info.type = "PCM"
             /\ got.pOutPCM.id \in HeldIds(slots)

\* --------------------------------------------------------------------- C17
\* C17: whenever ScanROMs returns true, HaveROMSet(Any) holds on return.
C17_TrueMeansComplete == (Done /\ scanRet) => HaveROMSet(slots, "Any")

\* --------------------------------------------------------------------- C18
\* C18: whenever ScanROMs returns false, HaveROMSet(Any) is false on return.
C18_FalseMeansIncomplete == (Done /\ ~scanRet) => ~HaveROMSet(slots, "Any")

\* --------------------------------------------------------------------- C19
\* C19: once the store has been destroyed, every stream CheckROM created has
\* been released exactly once.
C19_StreamsReleased ==
    pc = "destroyed" => \A path \in BagToSet(calls) : CopiesIn(path, fileDeletes) = 1

====
